---- MODULE Spec2Model ----
(***************************************************************************)
(* Job orchestration and progress streaming of the transcription app:      *)
(* the upload route (app/api/transcribe/local/route.ts) and the URL route  *)
(* (app/api/transcribe-url/route.ts).  One job is followed from the POST   *)
(* request through audio acquisition, the supervision of the Python worker *)
(* (stdout, stderr, 'error' and 'close' events), the server-sent event     *)
(* stream and the deletion of the temp artifact.                           *)
(*                                                                         *)
(* Text is modelled as sequences of tokens.  On stderr a token is the      *)
(* PROGRESS: marker, one complete JSON object, a truncated JSON fragment,  *)
(* free log text or a newline.  On stdout a token is an opening brace, a   *)
(* closing brace, payload text or whitespace.                              *)
(*                                                                         *)
(* SpecClient follows the page (app/page.tsx) that submits a job and reads *)
(* the event stream: the body is the frames the routes build for a worker  *)
(* run, cut into transport chunks at any point.  SpecJobs follows several  *)
(* requests handled at once, with their file ids and the temp directory.   *)
(* SpecClassify follows the URL route from the submitted URL to the choice *)
(* of the downloader.  SpecTyped is Spec with a worker that writes any     *)
(* object after the marker.  SpecPage follows the page while the uploader  *)
(* is submitted several times, and SpecRecorder the audio recorder's       *)
(* timer (components/AudioUploader.tsx, components/AudioRecorder.tsx).     *)
(***************************************************************************)
EXTENDS Integers, Sequences, FiniteSets, TLC

\* ------------------------------------------------------------------ bounds

\* number of 'data' events the worker's stdout and stderr deliver in one job
MaxChunks == 3

\* number of stderr 'data' events in a worker run whose frames the page reads
MaxRunChunks == 1

\* number of jobs the server handles at the same time
MaxJobs == 2

\* number of times the uploader's form is submitted
MaxSubmits == 2

\* number of calls of startRecording
MaxStarts == 3

\* ------------------------------------------------------------ stderr text

\* a token of stderr text that is not a progress object
Token(k) ==
  [k |-> k, type |-> "", percentage |-> 0, timestamp |-> 0, stage |-> "",
   elapsed_time |-> 0, estimated_total_time |-> 0]

MARKER == Token("P")
NL == Token("NL")
LogText == Token("X")
Truncated == Token("T")

\* the stage label the worker reports with a percentage
stageAt(p) == IF p = 0 THEN "loading_model" ELSE "finalizing"

\* the JSON text of one ProgressUpdate object
ProgressUpdate(p, ts) ==
  [k |-> "J", type |-> "progress", percentage |-> p, timestamp |-> ts,
   stage |-> stageAt(p), elapsed_time |-> ts, estimated_total_time |-> ts + 1]

\* the JSON text of an object with another type field after the marker
TypedUpdate(type, p, ts) == [ProgressUpdate(p, ts) EXCEPT !.type = type]

\* the values the type field of an object on stderr can hold
UpdateTypes == {"progress", "complete", "error"}

\* percentages the worker reports
Percentages == {0, 100}

\* the percentage of the worker's n-th progress object: from 0 up to 100
percentageAt(n) == IF n = 1 THEN 0 ELSE 100

\* chunk.split('\n'): the pieces between newlines, the last one included
RECURSIVE split(_)
split(chunk) ==
  IF \A i \in 1..Len(chunk) : chunk[i] # NL
    THEN <<chunk>>
    ELSE LET n == CHOOSE i \in 1..Len(chunk) :
                    chunk[i] = NL /\ \A j \in 1..(i - 1) : chunk[j] # NL
         IN  <<SubSeq(chunk, 1, n - 1)>> \o split(SubSeq(chunk, n + 1, Len(chunk)))

\* line.startsWith('PROGRESS:')
startsWith(line) == Len(line) > 0 /\ line[1] = MARKER

\* line.includes('PROGRESS:')
includes(line) == \E i \in 1..Len(line) : line[i] = MARKER

\* line.indexOf('PROGRESS:')
indexOf(line) ==
  CHOOSE i \in 1..Len(line) : line[i] = MARKER /\ \A j \in 1..(i - 1) : line[j] # MARKER

\* JSON.parse of the text that follows the marker: it succeeds exactly on
\* one complete JSON object with nothing around it
JSONparseOk(text) == Len(text) = 1 /\ text[1].k = "J"

JSONparse(text) ==
  [type |-> text[1].type, percentage |-> text[1].percentage,
   timestamp |-> text[1].timestamp, stage |-> text[1].stage,
   elapsed_time |-> text[1].elapsed_time,
   estimated_total_time |-> text[1].estimated_total_time]

\* decodeLines_local without the try around JSON.parse: a marker line whose
\* body does not parse is relayed all the same
RECURSIVE decodeLines_local_noCatch(_)
decodeLines_local_noCatch(lines) ==
  IF lines = <<>> THEN <<>>
  ELSE LET line == Head(lines)
           progressJson == Tail(line)
       IN  (IF startsWith(line)
              THEN IF JSONparseOk(progressJson)
                     THEN <<JSONparse(progressJson)>>
                     ELSE <<[type |-> "progress", percentage |-> 0, timestamp |-> 0,
                              stage |-> "", elapsed_time |-> 0,
                              estimated_total_time |-> 0]>>
              ELSE <<>>)
           \o decodeLines_local_noCatch(Tail(lines))

\* the progress objects one stderr chunk yields in the upload route, in order
RECURSIVE decodeLines_local(_)
decodeLines_local(lines) ==
  IF lines = <<>> THEN <<>>
  ELSE LET line == Head(lines)
           progressJson == Tail(line)
       IN  (IF startsWith(line) /\ JSONparseOk(progressJson)
              THEN <<JSONparse(progressJson)>> ELSE <<>>)
           \o decodeLines_local(Tail(lines))

\* the progress objects one stderr chunk yields in the URL route, in order
RECURSIVE decodeLines_url(_)
decodeLines_url(lines) ==
  IF lines = <<>> THEN <<>>
  ELSE LET line == Head(lines)
           progressStr == IF includes(line)
                            THEN SubSeq(line, indexOf(line) + 1, Len(line))
                            ELSE <<>>
       IN  (IF includes(line) /\ JSONparseOk(progressStr)
              THEN <<JSONparse(progressStr)>> ELSE <<>>)
           \o decodeLines_url(Tail(lines))

\* ------------------------------------------------------------ stdout text

OutTokens == {"{", "}", "t", " "}

\* the texts one stdout 'data' event can carry: one token, or a whole
\* object flushed at once
OutChunks == { <<c>> : c \in OutTokens } \cup { <<"{", "}">> }

\* first index of an opening brace, 0 when there is none
firstOpen(s) ==
  IF \E i \in 1..Len(s) : s[i] = "{"
    THEN CHOOSE i \in 1..Len(s) : s[i] = "{" /\ \A j \in 1..(i - 1) : s[j] # "{"
    ELSE 0

\* last index of a closing brace, 0 when there is none
lastClose(s) ==
  IF \E i \in 1..Len(s) : s[i] = "}"
    THEN CHOOSE i \in 1..Len(s) : s[i] = "}" /\ \A j \in (i + 1)..Len(s) : s[j] # "}"
    ELSE 0

\* stdoutData.match(/(\{[\s\S]*\})/): greedy, first '{' to last '}'
hasJsonMatch(s) == firstOpen(s) > 0 /\ lastClose(s) > firstOpen(s)

jsonMatch(s) == SubSeq(s, firstOpen(s), lastClose(s))

\* brace depth after the first n tokens
RECURSIVE depth(_, _)
depth(s, n) ==
  IF n = 0 THEN 0
  ELSE depth(s, n - 1) + (IF s[n] = "{" THEN 1 ELSE IF s[n] = "}" THEN -1 ELSE 0)

\* JSON.parse(jsonStr) succeeds exactly when jsonStr is one object: the
\* opening brace is closed by the last token and nowhere before
parsesAsObject(s) ==
  /\ Len(s) >= 2
  /\ depth(s, Len(s)) = 0
  /\ \A n \in 1..(Len(s) - 1) : depth(s, n) > 0

\* stdoutData.trim()
RECURSIVE trimStart(_)
trimStart(s) == IF s # <<>> /\ Head(s) = " " THEN trimStart(Tail(s)) ELSE s

RECURSIVE trimEnd(_)
trimEnd(s) ==
  IF s # <<>> /\ s[Len(s)] = " " THEN trimEnd(SubSeq(s, 1, Len(s) - 1)) ELSE s

trim(s) == trimEnd(trimStart(s))

\* ------------------------------------------------------- values on the wire

\* an error message: its fixed text, the exit code and diagnostic text it embeds
Message(text, code, diag) == [text |-> text, code |-> code, diag |-> diag]

NoMessage == Message("", 0, <<>>)

\* a TranscriptionResult: the object parsed from the matched stdout text, or
\* the plain-text fallback { text: stdoutData.trim() }
ParsedResult(jsonStr) == [kind |-> "json", src |-> jsonStr]
TextResult(text) == [kind |-> "text", src |-> text]
NoResult == [kind |-> "none", src |-> <<>>]

Frame(type, p, ts, hasResult, result, error) ==
  [type |-> type, percentage |-> p, timestamp |-> ts, stage |-> "",
   elapsed_time |-> 0, estimated_total_time |-> 0,
   hasResult |-> hasResult, result |-> result, error |-> error]

\* progressFrame with the percentage rescaled as if the worker sent a fraction
progressFrame_rescaled(progress) ==
  [Frame(progress.type, progress.percentage * 100, progress.timestamp, FALSE,
         NoResult, NoMessage)
     EXCEPT !.stage = progress.stage,
            !.elapsed_time = progress.elapsed_time,
            !.estimated_total_time = progress.estimated_total_time]

\* `data: ${JSON.stringify(progress)}\n\n`: the decoded object, as it is
progressFrame(progress) ==
  [Frame(progress.type, progress.percentage, progress.timestamp, FALSE, NoResult,
         NoMessage)
     EXCEPT !.stage = progress.stage,
            !.elapsed_time = progress.elapsed_time,
            !.estimated_total_time = progress.estimated_total_time]

\* upload route: `data: ${JSON.stringify({ type: 'complete', result })}\n\n`
completeFrame_local(result) == Frame("complete", 0, 0, TRUE, result, NoMessage)

\* URL route: `data: ${JSON.stringify({ type: 'complete' })}\n\n`
completeFrame_url(result) == Frame("complete", 0, 0, FALSE, NoResult, NoMessage)

\* `data: ${JSON.stringify({ type: 'error', error })}\n\n`
errorFrame(error) == Frame("error", 0, 0, FALSE, NoResult, error)

RECURSIVE progressFrames(_)
progressFrames(events) ==
  IF events = <<>> THEN <<>>
  ELSE <<progressFrame(Head(events))>> \o progressFrames(Tail(events))

\* ---------------------------------------------------- values on the page

\* the '' a transcription starts as, and the undefined a missing field reads as
EmptyString == [kind |-> "empty", src |-> <<>>]
Undefined == NoResult

ProgressState(percentage, stage, elapsed_time, estimated_total_time, isActive) ==
  [percentage |-> percentage, stage |-> stage, elapsed_time |-> elapsed_time,
   estimated_total_time |-> estimated_total_time, isActive |-> isActive]

\* ------------------------------------------------ values of the uploader

\* the submissions of the uploader
Submits == 1..MaxSubmits

\* the read loop of one submission: "idle", "reading", "ended", and the frames
\* of its response body it has not read yet
Stream(spc, body) == [pc |-> spc, body |-> body]

NoStream == Stream("idle", <<>>)

\* ------------------------------------------------ values of concurrent jobs

Jobs == 1..MaxJobs

\* the values uuidv4() can return
FileIds == 1..MaxJobs

\* the locals of one request: fileId / filePath, the child process, the
\* runner's buffers, the frames enqueued on its stream; audio is the upload
\* the worker found in the file it was given
Job(jpc, fileId, audio, stderrData, frames) ==
  [pc |-> jpc, fileId |-> fileId, audio |-> audio, stderrData |-> stderrData,
   frames |-> frames]

NoJob == Job("idle", 0, 0, <<>>, <<>>)

\* a frame of a job: its type and the upload its content comes from
JobFrame(type, audio) == [type |-> type, audio |-> audio]

NoResponse == [kind |-> "none", status |-> 0, result |-> NoResult, error |-> NoMessage]
StreamResponse == [kind |-> "stream", status |-> 200, result |-> NoResult, error |-> NoMessage]
JsonResponse(status, result, error) ==
  [kind |-> "json", status |-> status, result |-> result, error |-> error]

\* ---------------------------------------------------- the worker's close event

Outcome(ok, result, error) == [ok |-> ok, result |-> result, error |-> error]

\* closeOutcome_local with an exit message that leaves out stderrData
closeOutcome_local_noDiag(code, out, err) ==
  IF code # 0
    THEN Outcome(FALSE, NoResult, Message("Python script exited with code", code, <<>>))
  ELSE IF hasJsonMatch(out)
    THEN IF parsesAsObject(jsonMatch(out))
           THEN Outcome(TRUE, ParsedResult(jsonMatch(out)), NoMessage)
           ELSE Outcome(FALSE, NoResult,
                        Message("Failed to parse transcription result", 0, <<>>))
  ELSE Outcome(FALSE, NoResult,
               Message("Invalid response format from transcription service", 0, <<>>))

\* closeOutcome_local that fails the job when stderr holds a corrupt
\* PROGRESS line
closeOutcome_local_readsStderr(code, out, err) ==
  IF code # 0
    THEN Outcome(FALSE, NoResult, Message("Python script exited with code", code, err))
  ELSE IF \E i \in 1..Len(err) : err[i] = Truncated
    THEN Outcome(FALSE, NoResult,
                 Message("Failed to parse transcription result", 0, <<>>))
  ELSE IF hasJsonMatch(out)
    THEN IF parsesAsObject(jsonMatch(out))
           THEN Outcome(TRUE, ParsedResult(jsonMatch(out)), NoMessage)
           ELSE Outcome(FALSE, NoResult,
                        Message("Failed to parse transcription result", 0, <<>>))
  ELSE Outcome(FALSE, NoResult,
               Message("Invalid response format from transcription service", 0, <<>>))

\* upload route, streaming: which callback the 'close' handler makes
closeOutcome_local(code, out, err) ==
  IF code # 0
    THEN Outcome(FALSE, NoResult, Message("Python script exited with code", code, err))
  ELSE IF hasJsonMatch(out)
    THEN IF parsesAsObject(jsonMatch(out))
           THEN Outcome(TRUE, ParsedResult(jsonMatch(out)), NoMessage)
           ELSE Outcome(FALSE, NoResult,
                        Message("Failed to parse transcription result", 0, <<>>))
  ELSE Outcome(FALSE, NoResult,
               Message("Invalid response format from transcription service", 0, <<>>))

\* upload route, non-streaming: how runPythonScript's promise is settled
closeOutcome_regular(code, out, err) ==
  IF code # 0
    THEN Outcome(FALSE, NoResult, Message("Python script exited with code", code, err))
  ELSE IF hasJsonMatch(out)
    THEN IF parsesAsObject(jsonMatch(out))
           THEN Outcome(TRUE, ParsedResult(jsonMatch(out)), NoMessage)
           ELSE Outcome(FALSE, NoResult, Message("SyntaxError", 0, <<>>))
  ELSE Outcome(TRUE, TextResult(trim(out)), NoMessage)

\* closeOutcome_url that falls back to the raw text when JSON.parse throws
closeOutcome_url_rawOnParseError(code, out, err) ==
  IF code # 0
    THEN Outcome(FALSE, NoResult, Message("Python script failed with code", code, err))
  ELSE IF hasJsonMatch(out) /\ parsesAsObject(jsonMatch(out))
    THEN Outcome(TRUE, ParsedResult(jsonMatch(out)), NoMessage)
  ELSE Outcome(TRUE, TextResult(trim(out)), NoMessage)

\* URL route: how runPythonScriptWithProgress's promise is settled
closeOutcome_url(code, out, err) ==
  IF code # 0
    THEN Outcome(FALSE, NoResult, Message("Python script failed with code", code, err))
  ELSE IF hasJsonMatch(out)
    THEN IF parsesAsObject(jsonMatch(out))
           THEN Outcome(TRUE, ParsedResult(jsonMatch(out)), NoMessage)
           ELSE Outcome(FALSE, NoResult,
                        Message("Failed to parse transcription result", 0, <<>>))
  ELSE Outcome(TRUE, TextResult(trim(out)), NoMessage)

\* the 'error' event of a process that could not be started
spawnError_local == Message("Failed to start transcription process", 0, <<>>)
spawnError_regular == Message("spawn ENOENT", 0, <<>>)
spawnError_url == Message("Failed to start Python transcription", 0, <<>>)

\* --------------------------------------------------------- URL classification

Url(host, path, hasV) == [host |-> host, path |-> path, hasV |-> hasV]

\* the URLs a client submits: a channel root, a watch page, a direct audio file
Urls ==
  { Url("www.youtube.com", "/", FALSE),
    Url("www.youtube.com", "/watch", TRUE),
    Url("example.com", "/a.mp3", FALSE) }

youtubeHosts == {"youtube.com", "www.youtube.com", "m.youtube.com", "youtu.be"}

\* a non-empty string that new URL() rejects
Unparsable == Url("", "not a url", FALSE)

\* new URL(url) does not throw
URLparses(u) == u.host # ""

\* urlObj.hostname.toLowerCase()
toLowerCase(host) == IF host = "YouTube.com" THEN "youtube.com" ELSE host

\* hostname.includes('youtube.com')
hostIncludesYoutube(host) ==
  host \in {"youtube.com", "www.youtube.com", "m.youtube.com", "music.youtube.com",
            "notyoutube.com"}

\* pathname.includes('/watch') || includes('/shorts/') || includes('/embed/')
pathIsVideo(path) == path \in {"/watch", "/shorts/x", "/embed/x"}

\* isYouTubeURL that takes every hostname holding youtube.com for the platform
isYouTubeURL_anySubdomain(u) ==
  LET hostname == toLowerCase(u.host)
  IN  IF ~URLparses(u) THEN FALSE
      ELSE IF hostIncludesYoutube(hostname) THEN pathIsVideo(u.path) \/ u.hasV
      ELSE IF hostname = "youtu.be" THEN u.path # "/"
      ELSE FALSE

isYouTubeURL(u) ==
  LET hostname == toLowerCase(u.host)
  IN  IF ~URLparses(u) THEN FALSE
      ELSE IF hostIncludesYoutube(hostname)
        THEN hostname \in youtubeHosts /\ (pathIsVideo(u.path) \/ u.hasV)
      ELSE IF hostname = "youtu.be" THEN u.path # "/"
      ELSE FALSE

\* the URLs the classifier is given: every host with every path, with and
\* without a v parameter, and a string that is no URL
ClassifierHosts ==
  {"youtube.com", "www.youtube.com", "m.youtube.com", "youtu.be", "YouTube.com",
   "music.youtube.com", "notyoutube.com", "example.com"}

ClassifierPaths == {"/", "/watch", "/shorts/x", "/embed/x", "/shorts", "/a.mp3"}

ClassifierUrls ==
  { Url(h, p, v) : h \in ClassifierHosts, p \in ClassifierPaths, v \in BOOLEAN }
  \cup {Unparsable}

\* how downloadYouTubeAudio can end
YtDlpOutcomes == {"ok", "timeout", "unavailable", "failed", "nofile"}

\* how downloadAudioFromUrl can end
FetchOutcomes == {"ok", "404", "503", "network"}

\* response.status of a fetch that was answered without success, else 0
httpStatus(outcome) ==
  IF outcome = "404" THEN 404 ELSE IF outcome = "503" THEN 503 ELSE 0

\* the acquisition strategy POST chooses for a URL
acquireVia(u) == IF isYouTubeURL(u) THEN "ytdlp" ELSE "fetch"

acquireOutcomes(u) == IF isYouTubeURL(u) THEN YtDlpOutcomes ELSE FetchOutcomes

\* downloadOk that takes a zero exit status of yt-dlp for success without
\* looking for the file
downloadOk_trustsExitStatus(via, outcome) == outcome \in {"ok", "nofile"}

\* the download returned without throwing: the tool exited 0 and the expected
\* file exists, or the fetch was answered with success
downloadOk(via, outcome) == outcome = "ok"

\* acquisitionError with a fetch message that leaves out response.status
acquisitionError_noStatus(via, outcome) ==
  IF via = "ytdlp"
    THEN Message("YouTube download failed", 0, <<>>)
    ELSE Message("Failed to download audio from URL", 0, <<>>)

acquisitionError(via, outcome) ==
  IF via = "ytdlp"
    THEN IF outcome = "timeout" THEN Message("Download timed out", 0, <<>>)
         ELSE IF outcome = "unavailable"
           THEN Message("This YouTube video is not available for download", 0, <<>>)
         ELSE Message("YouTube download failed", 0, <<>>)
    ELSE IF httpStatus(outcome) # 0
      THEN Message("Failed to download audio from URL: Failed to fetch audio",
                   httpStatus(outcome), <<>>)
    ELSE Message("Failed to download audio from URL", 0, <<>>)

\* ------------------------------------------------------------------- state

VARIABLES
  pc,          \* "idle", "running" (a worker was spawned), "done"
  route,       \* "none", "local" (upload route), "url" (URL route)
  streaming,   \* the Accept header includes text/event-stream
  url,         \* the audioUrl of a URL submission
  scriptExists,\* whisper_local.py is where the routes look for it
  acquired,    \* [via, outcome]: how the audio was acquired and how that ended
  artifact,    \* the temp file: "absent", "present", "deleted"
  cleanups,    \* number of unlinkSync calls made on the temp file
  worker,      \* "none", "failing" (spawn failed, 'error' not yet emitted),
               \* "running", "errored" ('error' emitted), "closed"
  exitCode,    \* the code of the 'close' event
  stdoutData,  \* accumulated stdout text
  stderrData,  \* accumulated stderr text
  outChunks,   \* the stdout 'data' events so far, one chunk each
  errChunks,   \* the stderr 'data' events so far, one chunk each
  frames,      \* the frames enqueued on the event stream
  closed,      \* controller.close() was called
  cancelled,   \* the client disconnected: the stream was cancelled
  settled,     \* the runner's promise: "pending", "resolved", "rejected"
  response,    \* what POST returned
  uncaught     \* an exception left an event handler or start()

\* the page that submits a job and consumes the event stream
VARIABLES
  clientPc,      \* "idle", "reading" (the read loop runs), "ended"
  endpoint,      \* "none", "local" (/api/transcribe/local), "url" (/api/transcribe-url)
  wire,          \* the text of the response body the reader has not delivered yet
  sent,          \* the frames the server enqueued on the response body
  transcription, \* useState(''): the recorded result
  isLoading,     \* useState(false)
  progress,      \* ProgressState
  alerts,        \* the messages shown with alert()
  dispatched     \* the frames the read loop parsed and branched on, in order

clientVars ==
  <<clientPc, endpoint, wire, sent, transcription, isLoading, progress, alerts,
    dispatched>>

\* the server handling several requests at once
VARIABLES
  jobs,    \* per request: the locals of POST and of its runner
  disk,    \* TEMP_DIR: per file id the job whose audio the file holds, 0 for none
  issued   \* the file ids uuidv4() has returned

jobsVars == <<jobs, disk, issued>>

\* the page with its uploader while several submissions are under way
VARIABLES
  file,     \* AudioUploader's useState(null): a file is selected
  streams,  \* per submission: its read loop and the frames it has not read yet
  applied,  \* the submissions whose frames updated the page, in order
  simple    \* a job of the record or link tab: "idle", "started"

pageVars == <<file, streams, applied, simple>>

\* the audio recorder
VARIABLES
  mounted,          \* the component is mounted
  isRecording,      \* useState(false)
  audioBlob,        \* useState(null): a recording is kept
  mediaRecorderRef, \* mediaRecorderRef.current is set
  timerRef,         \* timerRef.current: an interval id, 0 for null
  intervals,        \* the interval timers that are active
  grants,           \* getUserMedia() calls that have not settled yet
  starts            \* startRecording calls so far

recorderVars ==
  <<mounted, isRecording, audioBlob, mediaRecorderRef, timerRef, intervals, grants,
    starts>>

uiVars == <<pageVars, recorderVars>>

serverVars ==
  <<pc, route, streaming, url, scriptExists, acquired, artifact, cleanups, worker,
    exitCode, stdoutData, stderrData, outChunks, errChunks, frames, closed, cancelled,
    settled, response, uncaught>>

vars ==
  <<pc, route, streaming, url, scriptExists, acquired, artifact, cleanups, worker,
    exitCode, stdoutData, stderrData, outChunks, errChunks, frames, closed, cancelled,
    settled, response, uncaught, clientPc, endpoint, wire, sent, transcription,
    isLoading, progress, alerts, dispatched, jobs, disk, issued, file, streams,
    applied, simple, mounted, isRecording, audioBlob, mediaRecorderRef, timerRef,
    intervals, grants, starts>>

workerVars == <<stdoutData, stderrData, outChunks, errChunks>>
requestVars == <<route, streaming, url, scriptExists, acquired>>

NoUrl == Url("", "", FALSE)
Acquired(via, outcome) == [via |-> via, outcome |-> outcome]

Init ==
  /\ pc = "idle"
  /\ route = "none"
  /\ streaming = FALSE
  /\ url = NoUrl
  /\ scriptExists = TRUE
  /\ acquired = Acquired("none", "none")
  /\ artifact = "absent"
  /\ cleanups = 0
  /\ worker = "none"
  /\ exitCode = 0
  /\ stdoutData = <<>>
  /\ stderrData = <<>>
  /\ outChunks = <<>>
  /\ errChunks = <<>>
  /\ frames = <<>>
  /\ closed = FALSE
  /\ cancelled = FALSE
  /\ settled = "pending"
  /\ response = NoResponse
  /\ uncaught = FALSE
  /\ clientPc = "idle"
  /\ endpoint = "none"
  /\ wire = <<>>
  /\ sent = <<>>
  /\ transcription = EmptyString
  /\ isLoading = FALSE
  /\ progress = ProgressState(0, "idle", 0, Undefined, FALSE)
  /\ alerts = <<>>
  /\ dispatched = <<>>
  /\ jobs = [j \in Jobs |-> NoJob]
  /\ disk = [id \in FileIds |-> 0]
  /\ issued = {}
  /\ file = FALSE
  /\ streams = [j \in Submits |-> NoStream]
  /\ applied = <<>>
  /\ simple = "idle"
  /\ mounted = TRUE
  /\ isRecording = FALSE
  /\ audioBlob = FALSE
  /\ mediaRecorderRef = FALSE
  /\ timerRef = 0
  /\ intervals = {}
  /\ grants = 0
  /\ starts = 0

\* ----------------------------------------------------------- stream, cleanup

\* ReadableStreamDefaultControllerCanCloseOrEnqueue: enqueue() and close()
\* throw a TypeError once the stream was closed or cancelled
canEnqueue == ~closed /\ ~cancelled

\* fs.unlinkSync(filePath) inside try/catch: a failure is logged and swallowed
cleanupFile(unlinkOk) ==
  /\ cleanups' = cleanups + 1
  /\ artifact' = IF unlinkOk /\ artifact = "present" THEN "deleted" ELSE artifact

\* spawn(pythonPath, [scriptPath, filePath]): the child runs, or 'error' follows
spawn(spawnOk) == worker' = IF spawnOk THEN "running" ELSE "failing"

\* a request that ends in a JSON response without a worker
respond(status, error) ==
  /\ pc' = "done"
  /\ response' = JsonResponse(status, NoResult, error)
  /\ UNCHANGED <<worker, exitCode, workerVars, frames, closed, cancelled, settled,
                 uncaught, cleanups>>

\* ------------------------------------------------------------ upload route

\* handleProgressStreamRequest: the stream is made, start() spawns the worker
handleProgressStreamRequest(spawnOk) ==
  /\ spawn(spawnOk)
  /\ pc' = "running"
  /\ response' = StreamResponse
  /\ UNCHANGED <<exitCode, workerVars, frames, closed, cancelled, settled, uncaught,
                 cleanups>>

\* handleRegularRequest up to the await of runPythonScript
handleRegularRequest(scriptOk, spawnOk) ==
  IF ~scriptOk
    THEN respond(500, Message("Server configuration error: Script not found", 0, <<>>))
    ELSE /\ spawn(spawnOk)
         /\ pc' = "running"
         /\ UNCHANGED <<response, exitCode, workerVars, frames, closed, cancelled,
                        settled, uncaught, cleanups>>

\* POST_local that saves the upload before it looks at the audio field
POST_local_writesFirst(bodyOk, audioValid, accept, scriptOk, spawnOk) ==
  /\ pc = "idle"
  /\ route' = "local"
  /\ streaming' = accept
  /\ scriptExists' = scriptOk
  /\ url' = url
  /\ IF ~bodyOk
       THEN /\ acquired' = Acquired("upload", "failed")
            /\ artifact' = artifact
            /\ respond(500, Message("Server error processing transcription", 0, <<>>))
     ELSE IF ~audioValid
       THEN /\ acquired' = Acquired("upload", "invalid")
            /\ artifact' = "present"
            /\ respond(400, Message("No audio file provided", 0, <<>>))
     ELSE /\ acquired' = Acquired("upload", "ok")
          /\ artifact' = "present"
          /\ IF accept
               THEN handleProgressStreamRequest(spawnOk)
               ELSE handleRegularRequest(scriptOk, spawnOk)
  /\ UNCHANGED <<clientVars, jobsVars, uiVars>>

\* POST of the upload route
POST_local(bodyOk, audioValid, accept, scriptOk, spawnOk) ==
  /\ pc = "idle"
  /\ route' = "local"
  /\ streaming' = accept
  /\ scriptExists' = scriptOk
  /\ url' = url
  /\ IF ~bodyOk
       THEN /\ acquired' = Acquired("upload", "failed")
            /\ artifact' = artifact
            /\ respond(500, Message("Server error processing transcription", 0, <<>>))
     ELSE IF ~audioValid
       THEN /\ acquired' = Acquired("upload", "invalid")
            /\ artifact' = artifact
            /\ respond(400, Message("No audio file provided", 0, <<>>))
     ELSE /\ acquired' = Acquired("upload", "ok")
          /\ artifact' = "present"
          /\ IF accept
               THEN handleProgressStreamRequest(spawnOk)
               ELSE handleRegularRequest(scriptOk, spawnOk)
  /\ UNCHANGED <<clientVars, jobsVars, uiVars>>

\* ---------------------------------------------------------------- URL route

\* handleStreamingTranscription: the stream is made, start() spawns the worker
handleStreamingTranscription(spawnOk) ==
  /\ spawn(spawnOk)
  /\ pc' = "running"
  /\ response' = StreamResponse
  /\ UNCHANGED <<exitCode, workerVars, frames, closed, cancelled, settled, uncaught,
                 cleanups>>

\* POST of the URL route
POST_url(u, accept, outcome, scriptOk, spawnOk) ==
  /\ pc = "idle"
  /\ outcome \in acquireOutcomes(u)
  /\ route' = "url"
  /\ streaming' = accept
  /\ scriptExists' = scriptOk
  /\ url' = u
  /\ IF u = NoUrl
       THEN /\ acquired' = Acquired("none", "invalid")
            /\ artifact' = artifact
            /\ respond(400, Message("Audio URL is required", 0, <<>>))
     ELSE IF ~downloadOk(acquireVia(u), outcome)
       THEN /\ acquired' = Acquired(acquireVia(u), outcome)
            /\ artifact' = artifact
            /\ respond(500, acquisitionError(acquireVia(u), outcome))
     ELSE /\ acquired' = Acquired(acquireVia(u), outcome)
          /\ artifact' = "present"
          /\ IF ~scriptOk
               THEN respond(500, Message("Server configuration error: Script not found",
                                         0, <<>>))
             ELSE IF accept
               THEN handleStreamingTranscription(spawnOk)
             ELSE /\ spawn(spawnOk)
                  /\ pc' = "running"
                  /\ UNCHANGED <<response, exitCode, workerVars, frames, closed,
                                 cancelled, settled, uncaught, cleanups>>
  /\ UNCHANGED <<clientVars, jobsVars, uiVars>>

\* ------------------------------------------------------- the worker's output

\* exit codes of a worker that was started: python cannot open a missing script
ExitCodes(scriptOk) == IF scriptOk THEN {0, 1} ELSE {2}

\* number of progress objects already written to stderr
written(err) == Cardinality({i \in 1..Len(err) : err[i].k = "J"})

\* the chunks a stderr 'data' event can carry after n progress objects
ErrChunks(n) ==
  { <<MARKER, ProgressUpdate(percentageAt(n + 1), n + 1), NL>>,
    <<MARKER, ProgressUpdate(percentageAt(n + 1), n + 1), NL,
      MARKER, ProgressUpdate(percentageAt(n + 2), n + 2), NL>>,
    <<LogText, MARKER, ProgressUpdate(percentageAt(n + 1), n + 1), NL>>,
    <<ProgressUpdate(percentageAt(n + 1), n + 1), NL>>,
    <<MARKER, Truncated, NL>>, <<LogText, NL>>, <<MARKER>> }

\* the chunks of a worker whose marker lines carry any type field
TypedChunks(n) ==
  { <<MARKER, TypedUpdate(type, percentageAt(n + 1), n + 1), NL>> : type \in UpdateTypes }
  \cup { <<LogText, NL>> }

\* StdoutData that keeps the newest chunk only: stdoutData = chunk
StdoutData_newestChunkOnly(chunk) ==
  /\ pc = "running"
  /\ worker = "running"
  /\ Len(outChunks) + Len(errChunks) < MaxChunks
  /\ stdoutData' = chunk
  /\ outChunks' = Append(outChunks, chunk)
  /\ UNCHANGED <<pc, requestVars, artifact, cleanups, worker, exitCode, stderrData,
                 errChunks, frames, closed, cancelled, settled, response, uncaught>>
  /\ UNCHANGED <<clientVars, jobsVars, uiVars>>

\* pythonProcess.stdout.on('data'): accumulate, nothing else (all runners)
StdoutData(chunk) ==
  /\ pc = "running"
  /\ worker = "running"
  /\ Len(outChunks) + Len(errChunks) < MaxChunks
  /\ stdoutData' = stdoutData \o chunk
  /\ outChunks' = Append(outChunks, chunk)
  /\ UNCHANGED <<pc, requestVars, artifact, cleanups, worker, exitCode, stderrData,
                 errChunks, frames, closed, cancelled, settled, response, uncaught>>
  /\ UNCHANGED <<clientVars, jobsVars, uiVars>>

\* relayed with a progress callback in non-streaming mode too
relayed_always(chunk) ==
  IF route = "local" THEN decodeLines_local(split(chunk))
  ELSE decodeLines_url(split(chunk))

\* the progress objects the stderr handler hands to onProgress for one chunk
relayed(chunk) ==
  IF ~streaming THEN <<>>
  ELSE IF route = "local" THEN decodeLines_local(split(chunk))
  ELSE decodeLines_url(split(chunk))

\* onProgress that puts the newest frames in front of the older ones
onProgress_newestFirst(events) ==
  frames' = IF canEnqueue THEN progressFrames(events) \o frames ELSE frames

\* onProgress for each decoded line; an enqueue() that throws is caught by the
\* try around JSON.parse and onProgress
onProgress(events) ==
  frames' = IF canEnqueue THEN frames \o progressFrames(events) ELSE frames

\* pythonProcess.stderr.on('data')
StderrData(chunk) ==
  /\ pc = "running"
  /\ worker = "running"
  /\ Len(outChunks) + Len(errChunks) < MaxChunks
  /\ stderrData' = stderrData \o chunk
  /\ errChunks' = Append(errChunks, chunk)
  /\ onProgress(relayed(chunk))
  /\ UNCHANGED <<pc, requestVars, artifact, cleanups, worker, exitCode, stdoutData,
                 outChunks, closed, cancelled, settled, response, uncaught>>
  /\ UNCHANGED <<clientVars, jobsVars, uiVars>>

\* Cancel with a cancel callback that terminates the worker
Cancel_killsWorker ==
  /\ pc = "running"
  /\ streaming
  /\ canEnqueue
  /\ cancelled' = TRUE
  /\ worker' = "closed"
  /\ exitCode' = 143
  /\ UNCHANGED <<pc, requestVars, artifact, cleanups, workerVars,
                 frames, closed, settled, response, uncaught>>
  /\ UNCHANGED <<clientVars, jobsVars, uiVars>>

\* the client goes away while the stream is open
Cancel ==
  /\ pc = "running"
  /\ streaming
  /\ canEnqueue
  /\ cancelled' = TRUE
  /\ UNCHANGED <<pc, requestVars, artifact, cleanups, worker, exitCode, workerVars,
                 frames, closed, settled, response, uncaught>>
  /\ UNCHANGED <<clientVars, jobsVars, uiVars>>

\* ------------------------------------------------- how a job's runner finishes

\* terminal_local without controller.close()
terminal_local_noClose(outcome, unlinkOk) ==
  IF canEnqueue
    THEN /\ frames' = Append(frames, IF outcome.ok
                                       THEN completeFrame_local(outcome.result)
                                       ELSE errorFrame(outcome.error))
         /\ cleanupFile(unlinkOk)
         /\ UNCHANGED <<closed, uncaught, settled, response>>
    ELSE /\ uncaught' = TRUE
         /\ UNCHANGED <<frames, closed, artifact, cleanups, settled, response>>

\* terminal_local with an onError that closes the stream without a frame
terminal_local_silentError(outcome, unlinkOk) ==
  IF canEnqueue
    THEN /\ frames' = IF outcome.ok
                        THEN Append(frames, completeFrame_local(outcome.result))
                        ELSE frames
         /\ closed' = TRUE
         /\ cleanupFile(unlinkOk)
         /\ UNCHANGED <<uncaught, settled, response>>
    ELSE /\ uncaught' = TRUE
         /\ UNCHANGED <<frames, closed, artifact, cleanups, settled, response>>

\* upload route, streaming: onComplete / onError.  enqueue() comes first, so
\* when it throws neither close() nor cleanupFile() is reached
terminal_local(outcome, unlinkOk) ==
  IF canEnqueue
    THEN /\ frames' = Append(frames, IF outcome.ok
                                       THEN completeFrame_local(outcome.result)
                                       ELSE errorFrame(outcome.error))
         /\ closed' = TRUE
         /\ cleanupFile(unlinkOk)
         /\ UNCHANGED <<uncaught, settled, response>>
    ELSE /\ uncaught' = TRUE
         /\ UNCHANGED <<frames, closed, artifact, cleanups, settled, response>>

\* terminal_regular with a cleanupFile whose unlink error is not caught: it
\* reaches POST's catch and becomes the response
terminal_regular_unlinkThrows(outcome, unlinkOk) ==
  IF settled # "pending"
    THEN UNCHANGED <<frames, closed, artifact, cleanups, settled, response, uncaught>>
    ELSE /\ settled' = IF outcome.ok THEN "resolved" ELSE "rejected"
         /\ cleanupFile(unlinkOk)
         /\ response' = IF ~unlinkOk
                          THEN JsonResponse(500, NoResult,
                                 Message("Server error processing transcription", 0, <<>>))
                        ELSE IF outcome.ok
                          THEN JsonResponse(200, outcome.result, NoMessage)
                          ELSE JsonResponse(500, NoResult, outcome.error)
         /\ UNCHANGED <<frames, closed, uncaught>>

\* upload route, non-streaming: handleRegularRequest after the await
terminal_regular(outcome, unlinkOk) ==
  IF settled # "pending"
    THEN UNCHANGED <<frames, closed, artifact, cleanups, settled, response, uncaught>>
    ELSE /\ settled' = IF outcome.ok THEN "resolved" ELSE "rejected"
         /\ cleanupFile(unlinkOk)
         /\ response' = IF outcome.ok
                          THEN JsonResponse(200, outcome.result, NoMessage)
                          ELSE JsonResponse(500, NoResult, outcome.error)
         /\ UNCHANGED <<frames, closed, uncaught>>

\* URL route, streaming: start() after the await: try, catch, finally
terminal_urlStream(outcome, unlinkOk) ==
  IF settled # "pending"
    THEN UNCHANGED <<frames, closed, artifact, cleanups, settled, response, uncaught>>
    ELSE /\ settled' = IF outcome.ok THEN "resolved" ELSE "rejected"
         /\ cleanupFile(unlinkOk)
         /\ IF canEnqueue
              THEN /\ frames' = Append(frames, IF outcome.ok
                                                 THEN completeFrame_url(outcome.result)
                                                 ELSE errorFrame(outcome.error))
                   /\ closed' = TRUE
                   /\ UNCHANGED uncaught
              ELSE /\ uncaught' = TRUE
                   /\ UNCHANGED <<frames, closed>>
         /\ UNCHANGED response

\* terminal_urlRegular on a promise that a second reject() settles again
terminal_urlRegular_settlesAgain(outcome, unlinkOk) ==
  /\ settled' = IF outcome.ok THEN "resolved" ELSE "rejected"
  /\ IF outcome.ok
       THEN /\ cleanupFile(unlinkOk)
            /\ response' = JsonResponse(200, outcome.result, NoMessage)
       ELSE /\ response' = JsonResponse(500, NoResult, outcome.error)
            /\ UNCHANGED <<artifact, cleanups>>
  /\ UNCHANGED <<frames, closed, uncaught>>

\* URL route, non-streaming: POST after the await, or its catch
terminal_urlRegular(outcome, unlinkOk) ==
  IF settled # "pending"
    THEN UNCHANGED <<frames, closed, artifact, cleanups, settled, response, uncaught>>
    ELSE /\ settled' = IF outcome.ok THEN "resolved" ELSE "rejected"
         /\ IF outcome.ok
              THEN /\ cleanupFile(unlinkOk)
                   /\ response' = JsonResponse(200, outcome.result, NoMessage)
              ELSE /\ response' = JsonResponse(500, NoResult, outcome.error)
                   /\ UNCHANGED <<artifact, cleanups>>
         /\ UNCHANGED <<frames, closed, uncaught>>

\* what the runner of this job does with a terminal outcome
terminal(local, regular, urlAny, unlinkOk) ==
  IF route = "local"
    THEN IF streaming THEN terminal_local(local, unlinkOk)
         ELSE terminal_regular(regular, unlinkOk)
    ELSE IF streaming THEN terminal_urlStream(urlAny, unlinkOk)
         ELSE terminal_urlRegular(urlAny, unlinkOk)

\* pythonProcess.on('error'): the process could not be started
SpawnError(unlinkOk) ==
  /\ pc = "running"
  /\ worker = "failing"
  /\ worker' = "errored"
  /\ terminal(Outcome(FALSE, NoResult, spawnError_local),
              Outcome(FALSE, NoResult, spawnError_regular),
              Outcome(FALSE, NoResult, spawnError_url), unlinkOk)
  /\ UNCHANGED <<pc, requestVars, exitCode, workerVars, cancelled>>
  /\ UNCHANGED <<clientVars, jobsVars, uiVars>>

\* pythonProcess.on('close'): after the worker exited, or after 'error' when
\* it never started (the code is then the negative errno)
Close(code, unlinkOk) ==
  /\ pc = "running"
  /\ \/ worker = "running" /\ code \in ExitCodes(scriptExists)
     \/ worker = "errored" /\ code = -2
  /\ worker' = "closed"
  /\ exitCode' = code
  /\ pc' = "done"
  /\ terminal(closeOutcome_local(code, stdoutData, stderrData),
              closeOutcome_regular(code, stdoutData, stderrData),
              closeOutcome_url(code, stdoutData, stderrData), unlinkOk)
  /\ UNCHANGED <<requestVars, workerVars, cancelled>>
  /\ UNCHANGED <<clientVars, jobsVars, uiVars>>

\* --------------------------------------------------------------- the system

Next ==
  \/ \E bodyOk, audioValid, accept, scriptOk, spawnOk \in BOOLEAN :
       POST_local(bodyOk, audioValid, accept, scriptOk, spawnOk)
  \/ \E u \in Urls \cup {NoUrl}, accept, scriptOk, spawnOk \in BOOLEAN :
       \E outcome \in acquireOutcomes(u) : POST_url(u, accept, outcome, scriptOk, spawnOk)
  \/ \E chunk \in OutChunks : StdoutData(chunk)
  \/ \E chunk \in ErrChunks(written(stderrData)) : StderrData(chunk)
  \/ Cancel
  \/ \E unlinkOk \in BOOLEAN : SpawnError(unlinkOk)
  \/ \E code \in {-2, 0, 1, 2}, unlinkOk \in BOOLEAN : Close(code, unlinkOk)

Spec == Init /\ [][Next]_vars

\* ------------------------------------------------- the page: the event stream

\* the pieces of `data: ${JSON.stringify(x)}\n\n`: the prefix, the two halves
\* of the JSON text (a transport chunk can end anywhere inside it), two newlines
DataPrefix == [k |-> "data: "]
JsonHead(f) == [k |-> "head", f |-> f]
JsonTail(f) == [k |-> "tail", f |-> f]

encode(f) == <<DataPrefix, JsonHead(f), JsonTail(f), NL, NL>>

RECURSIVE encodeAll(_)
encodeAll(fs) == IF fs = <<>> THEN <<>> ELSE encode(Head(fs)) \o encodeAll(Tail(fs))

\* the stdout texts of a worker run
Outs == {<<>>, <<"t">>, <<"{", "}">>}

\* the stderr 'data' events of a worker run: at most n chunks after err
RECURSIVE ErrRuns(_, _)
ErrRuns(err, n) ==
  {<<>>} \cup
  (IF n <= 0 THEN {}
   ELSE UNION { { <<c>> \o r : r \in ErrRuns(err \o c, n - 1) } :
                c \in ErrChunks(written(err)) })

RECURSIVE concat(_)
concat(chunks) == IF chunks = <<>> THEN <<>> ELSE Head(chunks) \o concat(Tail(chunks))

\* the progress frames a streaming route enqueues for the stderr chunks of a run
RECURSIVE relayedFrames(_, _)
relayedFrames(ep, chunks) ==
  IF chunks = <<>> THEN <<>>
  ELSE progressFrames(IF ep = "local" THEN decodeLines_local(split(Head(chunks)))
                      ELSE decodeLines_url(split(Head(chunks))))
       \o relayedFrames(ep, Tail(chunks))

\* the terminal frame a streaming route enqueues on the worker's close event
terminalFrame(ep, code, out, err) ==
  LET outcome == IF ep = "local" THEN closeOutcome_local(code, out, err)
                 ELSE closeOutcome_url(code, out, err)
  IN  IF ~outcome.ok THEN errorFrame(outcome.error)
      ELSE IF ep = "local" THEN completeFrame_local(outcome.result)
      ELSE completeFrame_url(outcome.result)

\* what fetch() resolves to: response.ok, the status and the frames of the body
FetchResponse(ok, status, body) == [ok |-> ok, status |-> status, body |-> body]

\* the responses a streaming request to an endpoint can get: an error response
\* of POST, or the event stream of one worker run
Responses(ep) ==
  { FetchResponse(FALSE, status, <<>>) : status \in {400, 500} }
  \cup UNION { UNION { { FetchResponse(TRUE, 200,
                           relayedFrames(ep, chunks)
                             \o <<terminalFrame(ep, code, out, concat(chunks))>>) :
                         chunks \in ErrRuns(<<>>, MaxRunChunks) } :
                       code \in {0, 1} } :
               out \in Outs }

\* ------------------------------------------------- the page: the read loops

\* line.startsWith('data: ')
startsWithData(line) == Len(line) > 0 /\ line[1] = DataPrefix

\* JSON.parse(line.substring(6)) succeeds on the whole JSON text of one frame
eventParseOk(line) ==
  /\ Len(line) = 3
  /\ line[2].k = "head" /\ line[3].k = "tail"
  /\ line[2].f = line[3].f

eventData(line) == line[2].f

\* the page state the read loops update
Page(t, l, p, a, d) ==
  [transcription |-> t, isLoading |-> l, progress |-> p, alerts |-> a,
   dispatched |-> d]

\* the progress branch with a setProgress that also ends the progress display
progressBranch_deactivates(st, ev) ==
  [st EXCEPT !.progress = ProgressState(ev.percentage, ev.stage, ev.elapsed_time,
                                        ev.estimated_total_time, FALSE),
             !.dispatched = Append(@, ev)]

\* eventData.type === 'progress' (both loops)
progressBranch(st, ev) ==
  [st EXCEPT !.progress = [@ EXCEPT !.percentage = ev.percentage,
                                    !.stage = ev.stage,
                                    !.elapsed_time = ev.elapsed_time,
                                    !.estimated_total_time = ev.estimated_total_time],
             !.dispatched = Append(@, ev)]

\* the complete branch without setIsLoading(false)
completeBranch_keepsLoading(st, ev) ==
  [st EXCEPT !.transcription = IF ev.hasResult THEN ev.result ELSE Undefined,
             !.progress = [@ EXCEPT !.percentage = 100, !.stage = "complete",
                                    !.isActive = FALSE],
             !.dispatched = Append(@, ev)]

\* eventData.type === 'complete' (both loops)
completeBranch(st, ev) ==
  [st EXCEPT !.transcription = IF ev.hasResult THEN ev.result ELSE Undefined,
             !.isLoading = FALSE,
             !.progress = [@ EXCEPT !.percentage = 100, !.stage = "complete",
                                    !.isActive = FALSE],
             !.dispatched = Append(@, ev)]

\* eventData.type === 'error', upload loop: alert and end
errorBranch_local(st, ev) ==
  [st EXCEPT !.isLoading = FALSE,
             !.progress = [@ EXCEPT !.isActive = FALSE],
             !.alerts = Append(@, ev.error),
             !.dispatched = Append(@, ev)]

\* eventData.type === 'error', URL loop: the throw is inside the try whose
\* catch only warns, so nothing else happens
errorBranch_url(st, ev) == [st EXCEPT !.dispatched = Append(@, ev)]

\* the for loop of the upload read loop over the lines of one chunk
RECURSIVE forLines_local(_, _)
forLines_local(st, lines) ==
  IF lines = <<>> THEN st
  ELSE LET line == Head(lines)
           ev == eventData(line)
       IN  forLines_local(
             IF ~(startsWithData(line) /\ eventParseOk(line)) THEN st
             ELSE IF ev.type = "progress" THEN progressBranch(st, ev)
             ELSE IF ev.type = "complete" THEN completeBranch(st, ev)
             ELSE IF ev.type = "error" THEN errorBranch_local(st, ev)
             ELSE st,
             Tail(lines))

\* the for loop of processStreamingResponse over the lines of one chunk: the
\* break after a complete frame leaves the for loop, not the read loop
RECURSIVE forLines_url(_, _)
forLines_url(st, lines) ==
  IF lines = <<>> THEN st
  ELSE LET line == Head(lines)
           ev == eventData(line)
       IN  IF ~(startsWithData(line) /\ eventParseOk(line))
             THEN forLines_url(st, Tail(lines))
           ELSE IF ev.type = "progress"
             THEN forLines_url(progressBranch(st, ev), Tail(lines))
           ELSE IF ev.type = "complete" THEN completeBranch(st, ev)
           ELSE IF ev.type = "error"
             THEN forLines_url(errorBranch_url(st, ev), Tail(lines))
           ELSE forLines_url(st, Tail(lines))

\* handleProgressTranscription up to the read loop: reset the page, fetch with
\* Accept: text/event-stream; on !response.ok throw to the catch, which clears
\* both flags and alerts
handleProgressTranscription(ep, res) ==
  /\ clientPc = "idle"
  /\ endpoint' = ep
  /\ transcription' = EmptyString
  /\ IF res.ok
       THEN /\ isLoading' = TRUE
            /\ progress' = ProgressState(0, "starting", 0, Undefined, TRUE)
            /\ UNCHANGED alerts
            /\ sent' = res.body
            /\ wire' = encodeAll(res.body)
            /\ clientPc' = "reading"
       ELSE /\ isLoading' = FALSE
            /\ progress' = ProgressState(0, "starting", 0, Undefined, FALSE)
            /\ alerts' = Append(alerts, Message("Server error", res.status, <<>>))
            /\ UNCHANGED <<sent, wire>>
            /\ clientPc' = "ended"
  /\ UNCHANGED dispatched
  /\ UNCHANGED <<serverVars, jobsVars, uiVars>>

\* one turn of a read loop: reader.read() delivers the next n pieces of the
\* body as one chunk, which is decoded, split and looped over
Read(n) ==
  /\ clientPc = "reading"
  /\ n \in 1..Len(wire)
  /\ LET chunk == SubSeq(wire, 1, n)
         lines == split(chunk)
         st == Page(transcription, isLoading, progress, alerts, dispatched)
         after == IF endpoint = "local" THEN forLines_local(st, lines)
                  ELSE forLines_url(st, lines)
     IN  /\ transcription' = after.transcription
         /\ isLoading' = after.isLoading
         /\ progress' = after.progress
         /\ alerts' = after.alerts
         /\ dispatched' = after.dispatched
  /\ wire' = SubSeq(wire, n + 1, Len(wire))
  /\ UNCHANGED <<clientPc, endpoint, sent>>
  /\ UNCHANGED <<serverVars, jobsVars, uiVars>>

\* reader.read() reports done: the read loop ends
ReadDone ==
  /\ clientPc = "reading"
  /\ wire = <<>>
  /\ clientPc' = "ended"
  /\ UNCHANGED <<endpoint, wire, sent, transcription, isLoading, progress, alerts,
                 dispatched>>
  /\ UNCHANGED <<serverVars, jobsVars, uiVars>>

ClientNext ==
  \/ \E ep \in {"local", "url"} : \E res \in Responses(ep) :
       handleProgressTranscription(ep, res)
  \/ \E n \in 1..Len(wire) : Read(n)
  \/ ReadDone

SpecClient == Init /\ [][ClientNext]_vars

\* ----------------------------------------------------------- concurrent jobs

\* uuidv4() with one fixed value
uuidv4_fixed(used) == {1}

\* uuidv4(): a value no earlier call returned
uuidv4(used) == FileIds \ used

\* POST up to its first await: fileId = uuidv4(), filePath from it
JobPOST(j, fileId) ==
  /\ jobs[j].pc = "idle"
  /\ fileId \in uuidv4(issued)
  /\ issued' = issued \cup {fileId}
  /\ jobs' = [jobs EXCEPT ![j] = Job("writing", fileId, 0, <<>>, <<>>)]
  /\ UNCHANGED disk
  /\ UNCHANGED <<serverVars, clientVars, uiVars>>

\* POST after the body (or the download) arrived: writeFileSync(filePath),
\* then the runner spawns the worker on filePath
JobWrite(j) ==
  /\ jobs[j].pc = "writing"
  /\ disk' = [disk EXCEPT ![jobs[j].fileId] = j]
  /\ jobs' = [jobs EXCEPT ![j].pc = "spawned"]
  /\ UNCHANGED issued
  /\ UNCHANGED <<serverVars, clientVars, uiVars>>

\* the worker opens the file named on its command line
WorkerRead(j) ==
  /\ jobs[j].pc = "spawned"
  /\ jobs' = [jobs EXCEPT ![j].pc = "running", ![j].audio = disk[jobs[j].fileId]]
  /\ UNCHANGED <<disk, issued>>
  /\ UNCHANGED <<serverVars, clientVars, uiVars>>

\* stderr 'data' of job j's child: its handler appends to the stderrData of
\* its own closure and enqueues on its own controller
JobStderr(j) ==
  /\ jobs[j].pc = "running"
  /\ Len(jobs[j].stderrData) < MaxRunChunks
  /\ jobs' = [jobs EXCEPT
               ![j].stderrData = Append(@, JobFrame("progress", jobs[j].audio)),
               ![j].frames = Append(@, JobFrame("progress", jobs[j].audio))]
  /\ UNCHANGED <<disk, issued>>
  /\ UNCHANGED <<serverVars, clientVars, uiVars>>

\* 'close' of job j's child: the terminal frame on its own controller, then
\* cleanupFile(filePath) with its own filePath
JobClose(j, unlinkOk) ==
  /\ jobs[j].pc \in {"spawned", "running"}
  /\ jobs' = [jobs EXCEPT
               ![j].pc = "done",
               ![j].frames = Append(@, JobFrame(IF jobs[j].audio = 0 THEN "error"
                                                ELSE "complete", jobs[j].audio))]
  /\ disk' = IF unlinkOk THEN [disk EXCEPT ![jobs[j].fileId] = 0] ELSE disk
  /\ UNCHANGED issued
  /\ UNCHANGED <<serverVars, clientVars, uiVars>>

JobsNext ==
  \/ \E j \in Jobs, fileId \in FileIds : JobPOST(j, fileId)
  \/ \E j \in Jobs : JobWrite(j)
  \/ \E j \in Jobs : WorkerRead(j)
  \/ \E j \in Jobs : JobStderr(j)
  \/ \E j \in Jobs, unlinkOk \in BOOLEAN : JobClose(j, unlinkOk)

SpecJobs == Init /\ [][JobsNext]_vars

\* ------------------------------------------------------ URL classification

\* POST of the URL route up to the classification: the body was read and
\* holds a non-empty audioUrl
ReceiveUrl(u) ==
  /\ pc = "idle"
  /\ u # NoUrl
  /\ route' = "url"
  /\ url' = u
  /\ pc' = "received"
  /\ UNCHANGED <<streaming, scriptExists, acquired, artifact, cleanups, worker,
                 exitCode, workerVars, frames, closed, cancelled, settled, response,
                 uncaught>>
  /\ UNCHANGED <<clientVars, jobsVars, uiVars>>

\* if (isYouTubeURL(audioUrl)) downloadYouTubeAudio else downloadAudioFromUrl
ChooseDownloader ==
  /\ pc = "received"
  /\ acquired' = Acquired(acquireVia(url), "none")
  /\ pc' = "acquiring"
  /\ UNCHANGED <<route, streaming, url, scriptExists, artifact, cleanups, worker,
                 exitCode, workerVars, frames, closed, cancelled, settled, response,
                 uncaught>>
  /\ UNCHANGED <<clientVars, jobsVars, uiVars>>

ClassifyNext ==
  \/ \E u \in ClassifierUrls : ReceiveUrl(u)
  \/ ChooseDownloader

SpecClassify == Init /\ [][ClassifyNext]_vars

\* ------------------------------------------- the page with several submissions

\* the stderr 'data' events of the worker runs behind the submissions: no
\* progress line, or one
UploadRuns == { <<>>, << <<MARKER, ProgressUpdate(percentageAt(1), 1), NL>> >> }

\* the responses a submission can get: an error response of POST, or the event
\* stream of one of these worker runs
UploadResponses ==
  { FetchResponse(FALSE, 500, <<>>) }
  \cup { FetchResponse(TRUE, 200,
           relayedFrames("local", chunks)
             \o <<terminalFrame("local", code, <<"{", "}">>, concat(chunks))>>) :
         chunks \in UploadRuns, code \in {0, 1} }

\* AudioUploader.handleFileChange: a file is chosen
handleFileChange ==
  /\ ~file
  /\ file' = TRUE
  /\ UNCHANGED <<streams, applied, simple, recorderVars>>
  /\ UNCHANGED <<serverVars, clientVars, jobsVars>>

\* AudioUploader.handleSubmit with progress tracking: the submit button is
\* enabled while a file is selected; handleProgressTranscription resets the
\* page and fetches; a response that is not ok goes to its catch, after which
\* handleSubmit clears the file
handleSubmit(j, res) ==
  /\ file
  /\ streams[j].pc = "idle"
  /\ \A k \in 1..(j - 1) : streams[k].pc # "idle"
  /\ transcription' = EmptyString
  /\ IF res.ok
       THEN /\ isLoading' = TRUE
            /\ progress' = ProgressState(0, "starting", 0, Undefined, TRUE)
            /\ streams' = [streams EXCEPT ![j] = Stream("reading", res.body)]
            /\ UNCHANGED <<alerts, file>>
       ELSE /\ isLoading' = FALSE
            /\ progress' = ProgressState(0, "starting", 0, Undefined, FALSE)
            /\ alerts' = Append(alerts, Message("Server error", res.status, <<>>))
            /\ streams' = [streams EXCEPT ![j] = Stream("ended", <<>>)]
            /\ file' = FALSE
  /\ UNCHANGED <<clientPc, endpoint, wire, sent, dispatched, applied, simple,
                 recorderVars>>
  /\ UNCHANGED <<serverVars, jobsVars>>

\* one turn of the read loop of submission j: the next frame arrives whole
ReadFrame(j) ==
  /\ streams[j].pc = "reading"
  /\ streams[j].body # <<>>
  /\ LET st == Page(transcription, isLoading, progress, alerts, dispatched)
         after == forLines_local(st, split(encode(Head(streams[j].body))))
     IN  /\ transcription' = after.transcription
         /\ isLoading' = after.isLoading
         /\ progress' = after.progress
         /\ alerts' = after.alerts
         /\ dispatched' = after.dispatched
  /\ streams' = [streams EXCEPT ![j].body = Tail(@)]
  /\ applied' = Append(applied, j)
  /\ UNCHANGED <<clientPc, endpoint, wire, sent, file, simple, recorderVars>>
  /\ UNCHANGED <<serverVars, jobsVars>>

\* reader.read() of submission j reports done: handleProgressTranscription
\* returns and handleSubmit clears the file
ReadEnd(j) ==
  /\ streams[j].pc = "reading"
  /\ streams[j].body = <<>>
  /\ streams' = [streams EXCEPT ![j].pc = "ended"]
  /\ file' = FALSE
  /\ UNCHANGED <<applied, simple, recorderVars>>
  /\ UNCHANGED <<serverVars, clientVars, jobsVars>>

\* onTranscriptionStart of the record and link tabs: setIsLoading(true)
onTranscriptionStart ==
  /\ simple = "idle"
  /\ simple' = "started"
  /\ isLoading' = TRUE
  /\ UNCHANGED <<clientPc, endpoint, wire, sent, transcription, progress, alerts,
                 dispatched, file, streams, applied, recorderVars>>
  /\ UNCHANGED <<serverVars, jobsVars>>

\* handleTranscriptionComplete that leaves the progress display active
handleTranscriptionComplete_keepsActive(result) ==
  /\ simple = "started"
  /\ simple' = "idle"
  /\ transcription' = result
  /\ isLoading' = FALSE
  /\ UNCHANGED <<clientPc, endpoint, wire, sent, progress, alerts, dispatched, file,
                 streams, applied, recorderVars>>
  /\ UNCHANGED <<serverVars, jobsVars>>

\* handleTranscriptionComplete: the simple completion handler
handleTranscriptionComplete(result) ==
  /\ simple = "started"
  /\ simple' = "idle"
  /\ transcription' = result
  /\ isLoading' = FALSE
  /\ progress' = [progress EXCEPT !.isActive = FALSE]
  /\ UNCHANGED <<clientPc, endpoint, wire, sent, alerts, dispatched, file, streams,
                 applied, recorderVars>>
  /\ UNCHANGED <<serverVars, jobsVars>>

PageNext ==
  \/ handleFileChange
  \/ \E j \in Submits : \E res \in UploadResponses : handleSubmit(j, res)
  \/ \E j \in Submits : ReadFrame(j)
  \/ \E j \in Submits : ReadEnd(j)
  \/ onTranscriptionStart
  \/ handleTranscriptionComplete(TextResult(<<"t">>))

SpecPage == Init /\ [][PageNext]_vars

\* --------------------------------------------------------- the audio recorder

\* startRecording up to its await: the button shows while nothing is being
\* recorded and is disabled while a recording is kept
startRecording ==
  /\ mounted
  /\ ~isRecording
  /\ ~audioBlob
  /\ starts < MaxStarts
  /\ starts' = starts + 1
  /\ grants' = grants + 1
  /\ UNCHANGED <<mounted, isRecording, audioBlob, mediaRecorderRef, timerRef,
                 intervals>>
  /\ UNCHANGED <<serverVars, clientVars, jobsVars, pageVars>>

\* getUserMedia() of the oldest waiting call resolves: startRecording goes on,
\* starts the recorder and stores a new interval in timerRef
Grant ==
  /\ grants > 0
  /\ grants' = grants - 1
  /\ mediaRecorderRef' = TRUE
  /\ isRecording' = mounted
  /\ timerRef' = starts - grants + 1
  /\ intervals' = intervals \cup {starts - grants + 1}
  /\ UNCHANGED <<mounted, audioBlob, starts>>
  /\ UNCHANGED <<serverVars, clientVars, jobsVars, pageVars>>

\* getUserMedia() of the oldest waiting call rejects: the catch logs
Deny ==
  /\ grants > 0
  /\ grants' = grants - 1
  /\ UNCHANGED <<mounted, isRecording, audioBlob, mediaRecorderRef, timerRef,
                 intervals, starts>>
  /\ UNCHANGED <<serverVars, clientVars, jobsVars, pageVars>>

\* stopRecording, with the recorder's onstop that keeps the recording
stopRecording ==
  /\ mounted
  /\ isRecording
  /\ mediaRecorderRef
  /\ isRecording' = FALSE
  /\ audioBlob' = TRUE
  /\ intervals' = intervals \ {timerRef}
  /\ timerRef' = 0
  /\ UNCHANGED <<mounted, mediaRecorderRef, grants, starts>>
  /\ UNCHANGED <<serverVars, clientVars, jobsVars, pageVars>>

\* the "record again" button: setAudioBlob(null)
discardRecording ==
  /\ mounted
  /\ audioBlob
  /\ ~isRecording
  /\ audioBlob' = FALSE
  /\ UNCHANGED <<mounted, isRecording, mediaRecorderRef, timerRef, intervals, grants,
                 starts>>
  /\ UNCHANGED <<serverVars, clientVars, jobsVars, pageVars>>

\* the cleanup of the effect: clearInterval(timerRef.current) on unmount
Unmount ==
  /\ mounted
  /\ mounted' = FALSE
  /\ intervals' = intervals \ {timerRef}
  /\ UNCHANGED <<isRecording, audioBlob, mediaRecorderRef, timerRef, grants, starts>>
  /\ UNCHANGED <<serverVars, clientVars, jobsVars, pageVars>>

RecorderNext ==
  \/ startRecording
  \/ Grant
  \/ Deny
  \/ stopRecording
  \/ discardRecording
  \/ Unmount

SpecRecorder == Init /\ [][RecorderNext]_vars

\* ------------------------------------------ a worker with any stderr content

\* the server of Next with a worker that writes any object after the marker
TypedNext ==
  \/ \E bodyOk, audioValid, accept, scriptOk, spawnOk \in BOOLEAN :
       POST_local(bodyOk, audioValid, accept, scriptOk, spawnOk)
  \/ \E u \in Urls \cup {NoUrl}, accept, scriptOk, spawnOk \in BOOLEAN :
       \E outcome \in acquireOutcomes(u) : POST_url(u, accept, outcome, scriptOk, spawnOk)
  \/ \E chunk \in OutChunks : StdoutData(chunk)
  \/ \E chunk \in TypedChunks(written(stderrData)) : StderrData(chunk)
  \/ Cancel
  \/ \E unlinkOk \in BOOLEAN : SpawnError(unlinkOk)
  \/ \E code \in {-2, 0, 1, 2}, unlinkOk \in BOOLEAN : Close(code, unlinkOk)

SpecTyped == Init /\ [][TypedNext]_vars

\* ------------------------------------------------------ properties: helpers

streamOpened == response.kind = "stream"

isTerminal(f) == f.type \in {"complete", "error"}

terminalCount == Cardinality({i \in 1..Len(frames) : isTerminal(frames[i])})

progressCount == Cardinality({i \in 1..Len(frames) : ~isTerminal(frames[i])})

lastFrame == frames[Len(frames)]

\* the artifact of this job was written
artifactWritten == acquired.outcome = "ok"

\* acquisition ended in an error
acquisitionFailed == acquired.outcome \notin {"none", "ok"}

\* the worker could not be started ('error' was emitted)
spawnFailed == worker = "errored" \/ (worker = "closed" /\ exitCode < 0)

\* a worker that ran has exited with this code
exitedWith(code) == worker = "closed" /\ exitCode = code

\* token i of a stderr chunk is the body of a whole PROGRESS line, as the
\* upload route reads lines: marker first in the line, the object up to its end
wholeLine_local(chunk, i) ==
  /\ chunk[i].k = "J"
  /\ i >= 2
  /\ chunk[i - 1] = MARKER
  /\ (i = 2 \/ chunk[i - 2] = NL)
  /\ (i = Len(chunk) \/ chunk[i + 1] = NL)

\* the same as the URL route reads lines: the first marker of the line, anywhere
wholeLine_url(chunk, i) ==
  /\ chunk[i].k = "J"
  /\ i >= 2
  /\ chunk[i - 1] = MARKER
  /\ \A j \in 1..(i - 2) :
       chunk[j] = MARKER => \E n \in (j + 1)..(i - 2) : chunk[n] = NL
  /\ (i = Len(chunk) \/ chunk[i + 1] = NL)

\* the progress objects of the PROGRESS lines observed whole on stderr so far
observedLines ==
  UNION { { JSONparse(<<errChunks[c][i]>>) :
              i \in { n \in 1..Len(errChunks[c]) :
                        IF route = "local"
                          THEN wholeLine_local(errChunks[c], n)
                          ELSE wholeLine_url(errChunks[c], n) } } :
          c \in 1..Len(errChunks) }

\* a stderr chunk holds a PROGRESS: marker followed by truncated JSON
isMalformed(chunk) ==
  \E i \in 1..(Len(chunk) - 1) : chunk[i] = MARKER /\ chunk[i + 1] = Truncated

hasMalformed == \E c \in 1..Len(errChunks) : isMalformed(errChunks[c])

\* -------------------------------------------------------------------- claims

\* C1: in streaming mode the frames of a job hold at most one terminal frame
\* (complete or error), nothing is enqueued after it and the stream is closed
\* with it; a job whose client stayed connected ends with exactly one.
C1_OneTerminalFrameLast ==
  streamOpened =>
    /\ terminalCount <= 1
    /\ \A i \in 1..Len(frames) : isTerminal(frames[i]) => i = Len(frames)
    /\ closed <=> terminalCount = 1
    /\ (pc = "done" /\ ~cancelled) => (terminalCount = 1 /\ closed)

C1_Witness ==
  /\ streamOpened /\ pc = "done" /\ ~cancelled
  /\ Len(frames) >= 2
  /\ isTerminal(lastFrame)
  /\ ~isTerminal(frames[1])

\* C2: once the temp artifact was written, the job does not end without a
\* deletion of it, on any outcome, in any mode of either route.
C2_CleanupNeverSkipped ==
  (pc = "done" /\ artifactWritten) => cleanups >= 1

\* C3: a job whose client disconnected before the terminal frame still ends
\* with the deletion of its temp artifact.
C3_CleanupOnDisconnect ==
  (pc = "done" /\ streamOpened /\ cancelled) => cleanups >= 1

\* C4: while the client is connected, the progress frames on the stream are
\* exactly the PROGRESS lines observed so far, in the order the worker wrote
\* them: none is held back and none overtakes another.
C4_ProgressInOrderUnbuffered ==
  (streamOpened /\ ~cancelled) =>
    /\ \A i, j \in 1..Len(frames) :
         (i < j /\ ~isTerminal(frames[i]) /\ ~isTerminal(frames[j]))
           => frames[i].timestamp < frames[j].timestamp
    /\ { frames[i] : i \in { n \in 1..Len(frames) : ~isTerminal(frames[n]) } }
         = { progressFrame(e) : e \in observedLines }

C4_Witness ==
  /\ streamOpened /\ ~cancelled /\ worker = "running"
  /\ Len(errChunks) = 2
  /\ Len(frames) = 3

\* C5: a streaming job whose worker exits 0 with a parsable JSON payload ends
\* with a complete frame that wraps the parsed result, in both routes.
C5_CompleteWrapsResult ==
  ( /\ streamOpened /\ pc = "done" /\ ~cancelled
    /\ exitedWith(0)
    /\ hasJsonMatch(stdoutData)
    /\ parsesAsObject(jsonMatch(stdoutData)) )
  => /\ Len(frames) >= 1
     /\ lastFrame.type = "complete"
     /\ lastFrame.hasResult
     /\ lastFrame.result = ParsedResult(jsonMatch(stdoutData))

\* C6: a worker that exits with a non-zero status, after any number of
\* progress frames, gives exactly one terminal frame: an error frame whose
\* message carries the exit code and all of the accumulated stderr text.
C6_ExitErrorFrame ==
  (streamOpened /\ pc = "done" /\ ~cancelled /\ worker = "closed" /\ exitCode > 0)
  => /\ terminalCount = 1
     /\ lastFrame.type = "error"
     /\ lastFrame.error.code = exitCode
     /\ lastFrame.error.diag = stderrData
     /\ \A i \in 1..Len(frames) : frames[i].type # "complete"

C6_Witness ==
  /\ streamOpened /\ pc = "done" /\ ~cancelled
  /\ exitedWith(1)
  /\ Len(frames) >= 2
  /\ lastFrame.type = "error"

\* C7: a worker that exits 0 with no JSON-shaped object on stdout gives a
\* degraded success, the result being the trimmed stdout text, in the
\* streaming and the non-streaming mode of both routes.
C7_DegradedSuccess ==
  (pc = "done" /\ ~cancelled /\ exitedWith(0) /\ ~hasJsonMatch(stdoutData))
  => IF streaming
       THEN /\ Len(frames) >= 1
            /\ lastFrame.type = "complete"
            /\ lastFrame.hasResult
            /\ lastFrame.result = TextResult(trim(stdoutData))
       ELSE /\ response.status = 200
            /\ response.result = TextResult(trim(stdoutData))

\* C8: a PROGRESS: line with truncated JSON gives no frame, raises nothing and
\* does not end the job: the progress frames are those of the valid lines, the
\* worker is still supervised, and the job ends with the terminal frame that
\* the worker's exit decides.
C8_MalformedLineDropped ==
  (streamOpened /\ ~cancelled /\ hasMalformed) =>
    /\ progressCount = Cardinality(observedLines)
    /\ worker = "running" =>
         (pc = "running" /\ ~closed /\ ~uncaught /\ terminalCount = 0)
    /\ pc = "done" =>
         /\ terminalCount = 1
         /\ exitCode # 0 => lastFrame.type = "error"
         /\ (exitCode = 0 /\ hasJsonMatch(stdoutData)
               /\ parsesAsObject(jsonMatch(stdoutData)))
              => lastFrame.type = "complete"

C8_Witness ==
  /\ streamOpened /\ ~cancelled /\ pc = "done"
  /\ Len(errChunks) = 2
  /\ isMalformed(errChunks[1])
  /\ Len(frames) = 2
  /\ frames[1].type = "progress"
  /\ isTerminal(frames[2])

isChannelRoot(u) ==
  u.host \in {"youtube.com", "www.youtube.com", "m.youtube.com"}
    /\ ~pathIsVideo(u.path) /\ ~u.hasV

C10_ChannelRootRejected ==
  (route = "url" /\ isChannelRoot(url)) =>
    /\ acquired.outcome # "ok"
    /\ artifact = "absent"
    /\ worker = "none"
    /\ frames = <<>>
    /\ pc = "done" => (response.kind = "json" /\ response.status >= 400)


\* C11: a direct audio URL whose fetch is answered with a non-success status
\* ends the job with an error response whose message holds that status code;
\* nothing is written to the artifact and no worker is spawned.
C11_FetchStatusSurfaced ==
  (route = "url" /\ acquired.via = "fetch" /\ httpStatus(acquired.outcome) # 0) =>
    /\ pc = "done"
    /\ response.kind = "json"
    /\ response.status = 500
    /\ response.error.code = httpStatus(acquired.outcome)
    /\ artifact = "absent"
    /\ worker = "none"
    /\ frames = <<>>

C11_Witness ==
  /\ route = "url"
  /\ url = Url("example.com", "/a.mp3", FALSE)
  /\ acquired = Acquired("fetch", "404")
  /\ response.error.code = 404


scriptNotFound_url == route = "url" /\ ~scriptExists

expectedOutcome ==
  IF spawnFailed
    THEN Outcome(FALSE, NoResult,
                 IF route = "url" THEN spawnError_url
                 ELSE IF streaming THEN spawnError_local ELSE spawnError_regular)
  ELSE IF route = "url" THEN closeOutcome_url(exitCode, stdoutData, stderrData)
  ELSE IF streaming THEN closeOutcome_local(exitCode, stdoutData, stderrData)
  ELSE closeOutcome_regular(exitCode, stdoutData, stderrData)

\* unlinkSync was called on the temp file and failed
deletionFailed == cleanups >= 1 /\ artifact = "present"

\* C19: when the deletion of the temp file failed, the terminal frame (to a
\* client still connected) or the JSON response is still the one the worker's
\* outcome determines.
C19_DeletionFailureSwallowed ==
  (pc = "done" /\ worker = "closed" /\ deletionFailed /\ ~cancelled) =>
    IF streaming
      THEN /\ frames # <<>>
           /\ lastFrame = (IF ~expectedOutcome.ok THEN errorFrame(expectedOutcome.error)
                           ELSE IF route = "local"
                             THEN completeFrame_local(expectedOutcome.result)
                           ELSE completeFrame_url(expectedOutcome.result))
      ELSE response = (IF expectedOutcome.ok
                         THEN JsonResponse(200, expectedOutcome.result, NoMessage)
                         ELSE JsonResponse(500, NoResult, expectedOutcome.error))

C19_Witness ==
  /\ pc = "done" /\ worker = "closed" /\ deletionFailed
  /\ route = "local" /\ ~streaming
  /\ response = JsonResponse(200, ParsedResult(<<"{", "}">>), NoMessage)

\* the lines of a text that end in a newline: all pieces but the last
terminatedLines(text) == SubSeq(split(text), 1, Len(split(text)) - 1)

\* C20: to a client that stays connected, a streaming job has relayed one
\* progress frame for every newline-terminated PROGRESS line of the stderr
\* text so far, however the text was cut into chunks.
C20_LineSplitAcrossChunks ==
  (streaming /\ worker \in {"running", "closed"} /\ ~cancelled) =>
    progressCount = Len(IF route = "local"
                          THEN decodeLines_local(terminatedLines(stderrData))
                          ELSE decodeLines_url(terminatedLines(stderrData)))

\* C18: under every interleaving of the jobs, each started job has a file id
\* of its own, a job's progress and result come from its own upload only, and
\* the file of a job whose worker has not closed holds that job's upload: no
\* other job's write or cleanup touched it.
C18_JobsShareNothing ==
  \A j \in Jobs :
    /\ \A k \in Jobs \ {j} :
         (jobs[j].pc # "idle" /\ jobs[k].pc # "idle") => jobs[j].fileId # jobs[k].fileId
    /\ \A i \in 1..Len(jobs[j].frames) :
         jobs[j].frames[i].type # "error" => jobs[j].frames[i].audio = j
    /\ jobs[j].pc \in {"spawned", "running"} => disk[jobs[j].fileId] = j

C18_Witness ==
  /\ jobs[1].pc = "done" /\ jobs[1].frames # <<>>
  /\ jobs[1].frames[Len(jobs[1].frames)] = JobFrame("complete", 1)
  /\ disk[jobs[1].fileId] = 0
  /\ jobs[2].pc = "running" /\ jobs[2].frames = <<JobFrame("progress", 2)>>
  /\ disk[jobs[2].fileId] = 2

\* the progress objects of the stderr lines so far in which log text stands
\* before the marker
prefixedLines ==
  { errChunks[c][3] :
      c \in { n \in 1..Len(errChunks) :
                /\ Len(errChunks[n]) = 4
                /\ errChunks[n][1] = LogText /\ errChunks[n][2] = MARKER
                /\ errChunks[n][3].k = "J" /\ errChunks[n][4] = NL } }

\* C21: to a client that stays connected, a streaming job of either route has
\* sent a progress frame for every stderr line whose PROGRESS: marker follows
\* a diagnostic prefix, decoded from just after the marker.
C21_PrefixedMarkerDecoded ==
  (streamOpened /\ ~cancelled) =>
    \A e \in prefixedLines :
      \E i \in 1..Len(frames) : frames[i] = progressFrame(JSONparse(<<e>>))

\* the text from the first opening brace on
fromFirstOpen(s) == SubSeq(s, firstOpen(s), Len(s))

\* the text holds an opening brace that is closed again
hasBalanced(s) ==
  firstOpen(s) > 0 /\ \E n \in 1..Len(fromFirstOpen(s)) : depth(fromFirstOpen(s), n) = 0

\* the first balanced-brace object of the text
firstBalanced(s) ==
  SubSeq(fromFirstOpen(s), 1,
         CHOOSE n \in 1..Len(fromFirstOpen(s)) :
           /\ depth(fromFirstOpen(s), n) = 0
           /\ \A m \in 1..(n - 1) : depth(fromFirstOpen(s), m) # 0)

\* C22: when the worker exits 0 and stdout holds a balanced-brace object, the
\* job succeeds with the first such object as its result, whatever text stands
\* before or after it.
C22_FirstBalancedObject ==
  (pc = "done" /\ ~cancelled /\ exitedWith(0) /\ hasBalanced(stdoutData)) =>
    IF streaming
      THEN /\ frames # <<>>
           /\ lastFrame.type = "complete"
           /\ route = "local" =>
                lastFrame.result = ParsedResult(firstBalanced(stdoutData))
      ELSE response = JsonResponse(200, ParsedResult(firstBalanced(stdoutData)),
                                   NoMessage)

\* what the client is given for an outcome of the worker run
clientSees(outcome) ==
  IF streaming
    THEN /\ frames # <<>>
         /\ lastFrame = (IF ~outcome.ok THEN errorFrame(outcome.error)
                         ELSE IF route = "local" THEN completeFrame_local(outcome.result)
                         ELSE completeFrame_url(outcome.result))
    ELSE response = (IF outcome.ok THEN JsonResponse(200, outcome.result, NoMessage)
                     ELSE JsonResponse(500, NoResult, outcome.error))

\* the close outcome of this job's runner for an exit code and the two texts
closeOutcome(code, out, err) ==
  IF route = "url" THEN closeOutcome_url(code, out, err)
  ELSE IF streaming THEN closeOutcome_local(code, out, err)
  ELSE closeOutcome_regular(code, out, err)

\* C23: a stdout 'data' event appends its chunk to stdoutData and does nothing
\* else (no frame, no settlement, no response); the outcome is computed once,
\* at 'close', from the concatenation of the chunks, so it is the same however
\* the text was cut.
C23_StdoutOnlyAccumulated ==
  /\ [][ outChunks' # outChunks =>
           /\ stdoutData' = stdoutData \o outChunks'[Len(outChunks')]
           /\ UNCHANGED <<pc, worker, frames, closed, settled, response, uncaught,
                          artifact, cleanups>> ]_vars
  /\ [](settled = "pending" \/ worker \in {"errored", "closed"})
  /\ []((pc = "done" /\ worker = "closed" /\ ~spawnFailed /\ ~cancelled) =>
          clientSees(closeOutcome(exitCode, concat(outChunks), stderrData)))

C23_Witness ==
  /\ pc = "done" /\ exitedWith(0) /\ route = "local" /\ streaming /\ ~cancelled
  /\ outChunks = << <<"{">>, <<"}">> >>
  /\ lastFrame = completeFrame_local(ParsedResult(<<"{", "}">>))

\* the messages a failed JSON.parse of the matched text ends in
parseErrors ==
  { Message("Failed to parse transcription result", 0, <<>>),
    Message("SyntaxError", 0, <<>>) }

\* C24: when the worker exits 0 and the text matched on stdout is not valid
\* JSON, the job ends with a parse error: one terminal error frame to a
\* connected streaming client, an error response otherwise; never a complete
\* frame or a success response.
C24_ParseErrorNeverSuccess ==
  ( /\ pc = "done" /\ ~cancelled /\ exitedWith(0)
    /\ hasJsonMatch(stdoutData) /\ ~parsesAsObject(jsonMatch(stdoutData)) )
  => IF streaming
       THEN /\ terminalCount = 1
            /\ lastFrame.type = "error"
            /\ lastFrame.error \in parseErrors
       ELSE /\ response.kind = "json" /\ response.status = 500
            /\ response.result = NoResult
            /\ response.error \in parseErrors

C24_Witness ==
  /\ pc = "done" /\ ~cancelled /\ exitedWith(0)
  /\ route = "url" /\ streaming
  /\ stdoutData = <<"{", "{", "}">>
  /\ Len(frames) = 1 /\ lastFrame.type = "error"

\* the message of this job's runner for a process that could not be started
spawnErrorOfJob ==
  IF route = "url" THEN spawnError_url
  ELSE IF streaming THEN spawnError_local ELSE spawnError_regular

\* the texts that open an exit-status message
exitTexts == {"Python script exited with code", "Python script failed with code"}

\* C25: a job whose worker could not be started tells a connected client that
\* the process failed to start (one error frame, or the error response), and
\* no exit-status error is reported for it, although 'close' follows 'error'
\* with a non-zero code.
C25_SpawnErrorDistinct ==
  (spawnFailed /\ ~cancelled) =>
    /\ IF streaming THEN frames = <<errorFrame(spawnErrorOfJob)>>
       ELSE response = JsonResponse(500, NoResult, spawnErrorOfJob)
    /\ \A i \in 1..Len(frames) : frames[i].error.text \notin exitTexts
    /\ response.error.text \notin exitTexts

C25_Witness ==
  /\ spawnFailed /\ ~cancelled /\ worker = "closed" /\ exitCode = -2 /\ pc = "done"
  /\ route = "url" /\ ~streaming
  /\ response = JsonResponse(500, NoResult, spawnError_url)

\* the platform URLs as the claim describes them
isPlatformUrl(u) ==
  /\ u # Unparsable
  /\ \/ /\ u.host \in {"youtube.com", "www.youtube.com", "m.youtube.com", "YouTube.com"}
        /\ (u.path \in {"/watch", "/shorts/x", "/embed/x"} \/ u.hasV)
     \/ u.host = "youtu.be" /\ u.path # "/"

\* C26: the classifier sends a URL to the platform downloader exactly when
\* its hostname is one of the four known hosts and, for the youtube.com hosts,
\* it has a video path or a v parameter, for youtu.be a non-empty path; every
\* other URL goes to the plain fetch.
C26_ClassifierExact ==
  pc = "acquiring" => (acquired.via = "ytdlp" <=> isPlatformUrl(url))

C26_Witness ==
  /\ pc = "acquiring" /\ acquired.via = "fetch"
  /\ url = Url("music.youtube.com", "/watch", TRUE)

\* C27: when yt-dlp exits 0 but the expected file is not there, acquisition
\* fails: the job ends with the download error response, nothing is in the
\* artifact, no worker is spawned and no frame is sent.
C27_MissingFileAfterZeroExit ==
  (route = "url" /\ acquired = Acquired("ytdlp", "nofile")) =>
    /\ pc = "done"
    /\ response = JsonResponse(500, NoResult, Message("YouTube download failed", 0, <<>>))
    /\ worker = "none" /\ artifact = "absent" /\ frames = <<>>

C27_Witness ==
  /\ route = "url" /\ url = Url("www.youtube.com", "/watch", TRUE)
  /\ acquired = Acquired("ytdlp", "nofile")
  /\ pc = "done" /\ response.status = 500 /\ worker = "none"

\* C28: when the worker exits 0, what a connected client is given at the end
\* is what the same stdout gives with nothing on stderr: log lines, valid and
\* corrupt PROGRESS lines on stderr do not change it.
C28_PayloadIgnoresStderr ==
  (pc = "done" /\ exitedWith(0) /\ ~cancelled) =>
    clientSees(closeOutcome(0, stdoutData, <<>>))

C28_Witness ==
  /\ pc = "done" /\ exitedWith(0) /\ ~cancelled /\ route = "local" /\ streaming
  /\ errChunks = << <<MARKER, Truncated, NL>>, <<LogText, NL>> >>
  /\ lastFrame = completeFrame_local(ParsedResult(<<"{", "}">>))

\* ------------------------------------------------------ the page: properties

lastDispatched == dispatched[Len(dispatched)]

\* C12: when the read loop has ended, the frames it dispatched are the frames
\* the server sent, each once and in order, whatever the chunking was.
C12_EveryFrameDispatchedOnce == clientPc = "ended" => dispatched = sent

\* C13: once a complete frame is dispatched the page holds the frame's result
\* as the transcription, percentage 100, stage complete, and is neither active
\* nor loading.
C13_CompleteRecorded ==
  (dispatched # <<>> /\ lastDispatched.type = "complete") =>
    /\ transcription = (IF lastDispatched.hasResult THEN lastDispatched.result
                        ELSE Undefined)
    /\ progress.percentage = 100
    /\ progress.stage = "complete"
    /\ ~progress.isActive
    /\ ~isLoading

C13_Witness ==
  /\ endpoint = "local" /\ dispatched # <<>> /\ lastDispatched.type = "complete"
  /\ transcription = ParsedResult(<<"{", "}">>)
  /\ Len(dispatched) = 2

\* C14: once an error frame is dispatched, in either loop, the page has shown
\* the frame's message and is neither active nor loading.
C14_ErrorSurfaced ==
  (dispatched # <<>> /\ lastDispatched.type = "error") =>
    /\ \E i \in 1..Len(alerts) : alerts[i] = lastDispatched.error
    /\ ~progress.isActive
    /\ ~isLoading

\* C15: a read that dispatches progress frames only sets percentage, stage,
\* elapsed_time and estimated_total_time to the last frame's values and leaves
\* isActive, isLoading and the transcription as they were.
C15_ProgressKeepsFlags ==
  [][ (/\ Len(dispatched') > Len(dispatched)
       /\ \A i \in (Len(dispatched) + 1)..Len(dispatched') :
            dispatched'[i].type = "progress")
      => LET ev == dispatched'[Len(dispatched')]
         IN  /\ progress' = [progress EXCEPT
                               !.percentage = ev.percentage,
                               !.stage = ev.stage,
                               !.elapsed_time = ev.elapsed_time,
                               !.estimated_total_time = ev.estimated_total_time]
             /\ isLoading' = isLoading
             /\ transcription' = transcription ]_vars

C15_Witness ==
  /\ dispatched # <<>> /\ lastDispatched.type = "progress"
  /\ progress = ProgressState(100, "finalizing", 2, 3, TRUE)
  /\ isLoading /\ transcription = EmptyString

terminalDispatched == \E i \in 1..Len(dispatched) : isTerminal(dispatched[i])

\* the page shows a job that is over
pageTerminal == ~progress.isActive /\ ~isLoading

\* C29: the page goes from idle through starting and the stages to a terminal
\* state: before any terminal frame a started job is active, once a terminal
\* frame is dispatched the page is terminal, and from then on no step changes
\* percentage, stage, the active flag or the transcription.
C29_TerminalAbsorbing ==
  /\ []((clientPc = "reading" /\ ~terminalDispatched) =>
          (progress.isActive /\ progress.stage # "complete"))
  /\ [](terminalDispatched => pageTerminal)
  /\ [][terminalDispatched => UNCHANGED <<progress, transcription>>]_vars


\* C30: a client disconnect never terminates the worker: the step in which the
\* client goes away leaves the worker, its exit status and its output alone,
\* and a worker running after the disconnect stops only by exiting with a
\* status of its own.
C30_NoKillOnDisconnect ==
  /\ [][(~cancelled /\ cancelled') => UNCHANGED <<worker, exitCode, workerVars>>]_vars
  /\ [][(cancelled /\ worker = "running" /\ worker' # "running") =>
          (worker' = "closed" /\ exitCode' \in ExitCodes(scriptExists))]_vars

\* the worker wrote a progress line and its result after the client had gone:
\* the line would have been relayed to a connected client, and no frame exists
C30_Witness ==
  /\ cancelled
  /\ worker = "closed"
  /\ exitCode = 0
  /\ hasJsonMatch(stdoutData)
  /\ errChunks # <<>>
  /\ relayed(errChunks[1]) # <<>>
  /\ frames = <<>>


\* C31: in a streaming upload job a terminal callback runs at most once: once
\* the stream is closed no further child-process event reaches a callback, and
\* for a connected client no enqueue is attempted on the closed stream (the
\* attempt throws and leaves the handler as an uncaught exception).
C31_TerminalCallbackOnce ==
  /\ [][(route = "local" /\ streaming /\ closed) => worker' = worker]_vars
  /\ []((route = "local" /\ streaming /\ ~cancelled) => ~uncaught)


\* C32: while the worker runs, every frame on the event stream has type
\* progress: nothing the worker writes on stderr puts a complete or an error
\* frame on the stream before the worker has exited.
C32_RelayedFramesAreProgress ==
  (pc = "running" /\ worker = "running") =>
    \A i \in 1..Len(frames) : frames[i].type = "progress"


\* C33: once the response stream of a streaming job has ended, the page is
\* neither loading nor showing active progress, whether or not the read loop
\* dispatched a terminal frame.
C33_LoadingClearedAtEnd ==
  clientPc = "ended" => (~isLoading /\ ~progress.isActive)


\* the upload request carried form data whose audio field is missing or no Blob
audioInvalid == route = "local" /\ acquired = Acquired("upload", "invalid")

\* C34: an upload request without a valid audio field is answered with status
\* 400 in either response mode, and the request is over with no temp file
\* written, no worker spawned and no stream opened.
C34_InvalidAudioRejected ==
  audioInvalid =>
    /\ pc = "done"
    /\ response = JsonResponse(400, NoResult, Message("No audio file provided", 0, <<>>))
    /\ artifact = "absent"
    /\ cleanups = 0
    /\ worker = "none"
    /\ frames = <<>>

C34_Witness == audioInvalid /\ streaming /\ response.status = 400


\* the submissions whose read loop runs
reading == {j \in Submits : streams[j].pc = "reading"}

\* C35: at most one streaming job of the uploader is in flight at a time, and
\* the frames that update the page come job after job: between two frames of
\* one job no frame of another job is applied.
C35_OneJobAtATime ==
  /\ Cardinality(reading) <= 1
  /\ \A a, b, c \in 1..Len(applied) :
       (a < b /\ b < c /\ applied[a] = applied[c]) => applied[b] = applied[a]


\* C36: on the page the progress-active flag implies the loading flag; a step
\* that clears loading leaves progress-active cleared, and progress-active is
\* set only by a step that starts a streaming job.
C36_ActiveImpliesLoading ==
  /\ [](progress.isActive => isLoading)
  /\ [][(isLoading /\ ~isLoading') => ~progress'.isActive]_vars
  /\ [][(~progress.isActive /\ progress'.isActive) =>
          \E j \in Submits : streams[j].pc = "idle" /\ streams'[j].pc = "reading"]_vars

\* a terminal frame of one job cleared both flags while another job's read
\* loop is still running
C36_Witness ==
  /\ ~isLoading
  /\ ~progress.isActive
  /\ reading # {}
  /\ dispatched # <<>>
  /\ isTerminal(lastDispatched)


\* C37: in the audio recorder at most one recording timer is active, and none
\* is active after the component was unmounted or while, mounted, it is not
\* recording.
C37_OneTimer ==
  /\ Cardinality(intervals) <= 1
  /\ ~mounted => intervals = {}
  /\ (mounted /\ ~isRecording) => intervals = {}

====
